---------------------------- MODULE Spec2Model ----------------------------
(***************************************************************************)
(* Model of the FIRA cost-comparison page: the Index page (upload          *)
(* coordinator and comparison engine), the FileUpload form and the         *)
(* uploadAndProcessFira service call.                                      *)
(*                                                                         *)
(* JavaScript values are tagged records [k, n, d, s]: k is the kind        *)
(* ("num", "nan", "inf", "undef", "null", "str"), n/d an exact rational    *)
(* for kind "num" (d > 0, lowest terms), n the sign for kind "inf", s the  *)
(* text for kind "str".  Arithmetic is exact rational arithmetic with the  *)
(* IEEE special values NaN and +-Infinity; binary floating-point           *)
(* representation error is not modelled.                                   *)
(***************************************************************************)
EXTENDS Integers, Sequences, FiniteSets, TLC

(***************************************************************************)
(* JavaScript numbers                                                      *)
(***************************************************************************)
Abs(i) == IF i < 0 THEN -i ELSE i

Sgn(i) == IF i < 0 THEN -1 ELSE IF i > 0 THEN 1 ELSE 0

RECURSIVE GCD(_, _)
GCD(a, b) == IF b = 0 THEN a ELSE GCD(b, a % b)

RECURSIVE Pow10(_)
Pow10(f) == IF f = 0 THEN 1 ELSE 10 * Pow10(f - 1)

\* the rational n/d (d # 0) in canonical form
Num(n, d) ==
    LET g == GCD(Abs(n), Abs(d))
        s == IF d < 0 THEN -1 ELSE 1
    IN  [k |-> "num", n |-> (s * n) \div g, d |-> (s * d) \div g, s |-> ""]

NaN == [k |-> "nan", n |-> 0, d |-> 1, s |-> ""]

Infinity(sign) == [k |-> "inf", n |-> sign, d |-> 1, s |-> ""]

Undefined == [k |-> "undef", n |-> 0, d |-> 1, s |-> ""]

Null == [k |-> "null", n |-> 0, d |-> 1, s |-> ""]

Str(text) == [k |-> "str", n |-> 0, d |-> 1, s |-> text]

\* ToNumber of the operands of - * / (and of + between non-strings)
ToNumber(v) ==
    CASE v.k = "num" -> v
      [] v.k = "inf" -> v
      [] v.k = "null" -> Num(0, 1)
      [] OTHER -> NaN

IsFinite(v) == v.k = "num"

JsAdd(a, b) ==
    LET x == ToNumber(a)
        y == ToNumber(b)
    IN  CASE x.k = "nan" \/ y.k = "nan" -> NaN
          [] x.k = "inf" /\ y.k = "inf" -> IF x.n = y.n THEN x ELSE NaN
          [] x.k = "inf" -> x
          [] y.k = "inf" -> y
          [] OTHER -> Num(x.n * y.d + y.n * x.d, x.d * y.d)

JsNeg(a) ==
    LET x == ToNumber(a)
    IN  CASE x.k = "nan" -> NaN
          [] x.k = "inf" -> Infinity(-x.n)
          [] OTHER -> Num(-x.n, x.d)

JsSub(a, b) == JsAdd(a, JsNeg(b))

JsMul(a, b) ==
    LET x == ToNumber(a)
        y == ToNumber(b)
    IN  CASE x.k = "nan" \/ y.k = "nan" -> NaN
          [] x.k = "inf" \/ y.k = "inf" ->
                IF Sgn(x.n) * Sgn(y.n) = 0 THEN NaN
                ELSE Infinity(Sgn(x.n) * Sgn(y.n))
          [] OTHER -> Num(x.n * y.n, x.d * y.d)

JsDiv(a, b) ==
    LET x == ToNumber(a)
        y == ToNumber(b)
    IN  CASE x.k = "nan" \/ y.k = "nan" -> NaN
          [] x.k = "inf" /\ y.k = "inf" -> NaN
          [] x.k = "inf" -> Infinity(IF y.n < 0 THEN -x.n ELSE x.n)
          [] y.k = "inf" -> Num(0, 1)
          [] y.n = 0 -> IF x.n = 0 THEN NaN ELSE Infinity(Sgn(x.n))
          [] OTHER -> Num(x.n * y.d, x.d * y.n)

\* Number(x.toFixed(f)) for a number x: the multiple of 10^-f nearest to x,
\* the larger magnitude on a tie; "NaN" and "Infinity" print and parse back.
NumberToFixed(x, f) ==
    IF x.k # "num" THEN x
    ELSE LET m == Abs(x.n) * Pow10(f)
             q == m \div x.d
             r == m % x.d
             up == IF 2 * r >= x.d THEN q + 1 ELSE q
         IN  Num(Sgn(x.n) * up, Pow10(f))

\* x.toFixed exists only on numbers: on undefined or null the property read
\* throws a TypeError
ToFixedThrows(v) == v.k \in {"undef", "null", "str"}

TypeErrorMessage(v) ==
    CASE v.k = "undef" -> "Cannot read properties of undefined (reading 'toFixed')"
      [] v.k = "null" -> "Cannot read properties of null (reading 'toFixed')"
      [] OTHER -> "firaData.toFixed is not a function"

NumLess(a, b) == a.n * b.d < b.n * a.d


(***************************************************************************)
(* Comparison engine: the body of handleFileUpload after the payload       *)
(* checks (Index page)                                                     *)
(***************************************************************************)
\* (inrAmount - finalInrAmount) / inrAmount * 100, to 2 decimals
currentProviderEffectiveCost(firaData) ==
    NumberToFixed(
        JsMul(JsDiv(JsSub(firaData.inrAmount, firaData.finalInrAmount),
                    firaData.inrAmount),
              Num(100, 1)), 2)

skydoOriginalInrAmount(firaData) == JsMul(firaData.amount, firaData.fxRateSkydo)

skydoEffectiveCost(firaData) ==
    NumberToFixed(
        JsMul(JsDiv(JsSub(skydoOriginalInrAmount(firaData),
                          firaData.finalInrAmountSkydo),
                    skydoOriginalInrAmount(firaData)),
              Num(100, 1)), 2)

currentProviderTotal(firaData) ==
    NumberToFixed(
        JsAdd(JsAdd(firaData.platformWireFee, firaData.platformFiraFee),
              firaData.platformTransactionFee), 2)

skydoTotal(firaData) ==
    NumberToFixed(
        JsAdd(JsAdd(firaData.skydoWireFee, firaData.skydoFiraFee),
              firaData.transactionSkydoFee), 2)

\* savings floored at zero
savingsAmountClamped(firaData) ==
    LET v == NumberToFixed(JsSub(firaData.finalInrAmountSkydo,
                                 firaData.finalInrAmount), 2)
    IN  IF v.k = "num" /\ v.n < 0 THEN Num(0, 1) ELSE v

savingsAmount(firaData) ==
    NumberToFixed(JsSub(firaData.finalInrAmountSkydo, firaData.finalInrAmount), 2)

\* the percentage taken relative to the Skydo amount
savingsPercentageOfSkydo(firaData) ==
    NumberToFixed(
        JsMul(JsDiv(JsSub(firaData.finalInrAmountSkydo, firaData.finalInrAmount),
                    firaData.finalInrAmountSkydo),
              Num(100, 1)), 2)

savingsPercentage(firaData) ==
    NumberToFixed(
        JsMul(JsDiv(JsSub(firaData.finalInrAmountSkydo, firaData.finalInrAmount),
                    firaData.finalInrAmount),
              Num(100, 1)), 2)

\* the receivers of .toFixed in the object literal, in evaluation order
ToFixedReceivers(firaData) ==
    << firaData.inrAmount, firaData.calculatedExchangeRate,
       firaData.platformWireFee, firaData.platformFiraFee,
       firaData.platformTransactionFee,
       firaData.fxRateSkydo, firaData.skydoWireFee, firaData.skydoFiraFee,
       firaData.transactionSkydoFee,
       firaData.inrAmount, firaData.amount >>

Charge(type, amount) == [type |-> type, amount |-> amount]

\* the object literal assigned to transformedData, when nothing throws
transformedData(firaData) ==
    [ currentProvider |->
        [ name |-> "Current Provider",
          paymentAmount |-> NumberToFixed(firaData.inrAmount, 2),
          charges |->
            << Charge("FX Rate", NumberToFixed(firaData.calculatedExchangeRate, 4)),
               Charge("Wire Fee (INR)", NumberToFixed(firaData.platformWireFee, 2)),
               Charge("FIRA Fee (INR)", NumberToFixed(firaData.platformFiraFee, 2)),
               Charge("Transaction Fee (INR)",
                      NumberToFixed(firaData.platformTransactionFee, 2)) >>,
          totalOnTransaction |-> currentProviderTotal(firaData),
          effectiveCost |-> currentProviderEffectiveCost(firaData) ],
      skydo |->
        [ name |-> "Skydo",
          paymentAmount |-> NumberToFixed(skydoOriginalInrAmount(firaData), 2),
          charges |->
            << Charge("FX Rate", NumberToFixed(firaData.fxRateSkydo, 4)),
               Charge("Wire Fee (INR)", NumberToFixed(firaData.skydoWireFee, 2)),
               Charge("FIRA Fee (INR)", NumberToFixed(firaData.skydoFiraFee, 2)),
               Charge("Transaction Fee (INR)",
                      NumberToFixed(firaData.transactionSkydoFee, 2)) >>,
          totalOnTransaction |-> skydoTotal(firaData),
          effectiveCost |-> skydoEffectiveCost(firaData) ],
      savings |->
        [ amount |-> savingsAmount(firaData),
          percentage |-> savingsPercentage(firaData) ],
      transactionAmount |-> NumberToFixed(firaData.inrAmount, 2),
      originalAmount |-> NumberToFixed(firaData.amount, 2),
      currency |-> firaData.currency ]

\* evaluating the literal: a TypeError at the first receiver without toFixed
computeComparison(firaData) ==
    LET rs == ToFixedReceivers(firaData)
        bad == {i \in DOMAIN rs : ToFixedThrows(rs[i])}
    IN  IF bad = {}
        THEN [threw |-> FALSE, message |-> "", data |-> <<transformedData(firaData)>>]
        ELSE LET first == CHOOSE i \in bad : \A j \in bad : i <= j
             IN  [threw |-> TRUE, message |-> TypeErrorMessage(rs[first]),
                  data |-> <<>>]


(***************************************************************************)
(* The service call uploadAndProcessFira                                   *)
(***************************************************************************)
\* Array.prototype.join
RECURSIVE Join(_, _)
Join(strings, sep) ==
    IF Len(strings) = 0 THEN ""
    ELSE IF Len(strings) = 1 THEN strings[1]
    ELSE strings[1] \o sep \o Join(Tail(strings), sep)

requiredFields ==
    << "amount", "currency", "inrAmount", "fxRateSkydo",
       "calculatedExchangeRate", "finalInrAmount", "finalInrAmountSkydo" >>

\* requiredFields.filter(field => !(field in firaData) || firaData[field] === undefined)
missingFields(firaData) ==
    SelectSeq(requiredFields, LAMBDA field : firaData[field].k = "undef")

Thrown(message) == [threw |-> TRUE, message |-> message]

Returned == [threw |-> FALSE, message |-> ""]

\* What the inner try block does with the HTTP exchange `resp`:
\*   resp.fetch   "rejects" (network error) or "resolves"
\*   resp.ok, resp.status, resp.text   the response and its body text
\*   resp.json    <<>> when JSON.parse(text) throws, else <<result>>
\* A result is [isNull, success ("true", "false" or "other" for a non-boolean),
\* message (a value), errors (<<>> when absent, else <<list>>),
\* firaData (<<>> when null or absent, else <<payload>>)].
uploadAndProcessFiraTry(resp) ==
    IF resp.fetch = "rejects" THEN Thrown(resp.text)
    ELSE IF ~resp.ok
    THEN Thrown("HTTP error! status: " \o resp.status \o ", message: " \o resp.text)
    ELSE IF resp.json = <<>> THEN Thrown("Invalid JSON response: " \o resp.text)
    ELSE LET result == resp.json[1]
         IN  IF result.isNull \/ result.success = "other"
             THEN Thrown("Invalid response format from server")
             ELSE IF result.success = "true" /\ result.firaData = <<>>
             THEN Thrown("Server returned success but no data")
             ELSE IF result.success = "true"
                     /\ Len(missingFields(result.firaData[1])) > 0
             THEN Thrown("Server response missing required fields: "
                         \o Join(missingFields(result.firaData[1]), ", "))
             ELSE Returned

\* the outer catch re-throws every error with more context
uploadAndProcessFira(resp) ==
    LET r == uploadAndProcessFiraTry(resp)
    IN  IF r.threw THEN Thrown("Failed to upload FIRA file: " \o r.message)
        ELSE Returned

(***************************************************************************)
(* handleFileUpload after the await: the outcome for one response          *)
(***************************************************************************)
FallbackMessage == "Failed to process FIRA document"

\* the message field taking precedence over the errors list
errorMessageMessageFirst(result) ==
    IF result.message.k = "str" /\ result.message.s # ""
    THEN result.message.s
    ELSE IF result.errors # <<>> /\ Len(result.errors[1]) > 0
    THEN Join(result.errors[1], ", ")
    ELSE "Failed to process FIRA document"

\* result.errors?.length > 0 ? result.errors.join(', ')
\*                          : result.message || "Failed to process FIRA document"
errorMessage(result) ==
    IF result.errors # <<>> /\ Len(result.errors[1]) > 0
    THEN Join(result.errors[1], ", ")
    ELSE IF result.message.k = "str" /\ result.message.s # ""
    THEN result.message.s
    ELSE FallbackMessage

Failed(message) == [ok |-> FALSE, message |-> message, data |-> <<>>]

\* [ok, message, data]: ok with the record to store, or the caught error's message
handleFileUploadOutcome(resp) ==
    LET call == uploadAndProcessFira(resp)
    IN  IF call.threw THEN Failed(call.message)
        ELSE LET result == resp.json[1]
             IN  IF result.success # "true" THEN Failed(errorMessage(result))
                 ELSE IF result.firaData = <<>>
                 THEN Failed("No data received from server")
                 ELSE LET c == computeComparison(result.firaData[1])
                      IN  IF c.threw THEN Failed(c.message)
                          ELSE [ok |-> TRUE, message |-> "", data |-> c.data]


(***************************************************************************)
(* Inputs: files, payment methods, payloads and responses                  *)
(***************************************************************************)
MaxCalls == 2     \* submissions issued in one behaviour

MaxUrls == 2      \* preview URLs created in one behaviour

NoUrl == 0

File(name, type) == [name |-> name, type |-> type]

NoFile == File("", "")

Files ==
    { File("fira.pdf", "application/pdf"), File("scan.png", "image/png"),
      File("scan.jpeg", "image/jpeg"), File("scan.jpg", "image/jpg"),
      File("anim.gif", "image/gif"), File("notes.txt", "text/plain") }

PaymentMethod == {"BANK", "PAYONEER", "WISE", "PAYPAL", "OTHERS"}

\* the methods the user picks in the model
MethodsTried == {"BANK", "PAYPAL"}

\* the payload of the worked example
BasePayload ==
    [ amount |-> Num(1000, 1), currency |-> Str("USD"),
      inrAmount |-> Num(83000, 1), fxRateSkydo |-> Num(169, 2),
      calculatedExchangeRate |-> Num(83, 1),
      transactionSkydoFee |-> Num(300, 1), skydoFiraFee |-> Num(200, 1),
      skydoWireFee |-> Num(300, 1),
      platformFiraFee |-> Num(200, 1), platformWireFee |-> Num(500, 1),
      platformTransactionFee |-> Num(100, 1),
      finalInrAmount |-> Num(82200, 1), finalInrAmountSkydo |-> Num(83700, 1) ]

\* The example payload with one field made odd: a zero divisor, a field that
\* is absent (undefined), null or out of range (1e999 parses to Infinity).
Payloads ==
    { BasePayload,
      [BasePayload EXCEPT !.finalInrAmountSkydo = Num(82000, 1)],
      [BasePayload EXCEPT !.amount = Num(0, 1)],
      [BasePayload EXCEPT !.inrAmount = Num(0, 1)],
      [BasePayload EXCEPT !.finalInrAmount = Num(0, 1)],
      [BasePayload EXCEPT !.fxRateSkydo = Num(0, 1)],
      [BasePayload EXCEPT !.inrAmount = Undefined],
      [BasePayload EXCEPT !.currency = Undefined],
      [BasePayload EXCEPT !.platformWireFee = Undefined],
      [BasePayload EXCEPT !.skydoFiraFee = Null],
      [BasePayload EXCEPT !.finalInrAmount = Null],
      [BasePayload EXCEPT !.inrAmount = Infinity(1)],
      [BasePayload EXCEPT !.transactionSkydoFee = Infinity(1)] }

Result(success, message, errors, firaData) ==
    [isNull |-> FALSE, success |-> success, message |-> message,
     errors |-> errors, firaData |-> firaData]

NullResult ==
    [isNull |-> TRUE, success |-> "other", message |-> Undefined,
     errors |-> <<>>, firaData |-> <<>>]

JsonResponse(result) ==
    [fetch |-> "resolves", ok |-> TRUE, status |-> "200", text |-> "{...}",
     json |-> <<result>>]

NetworkErrors ==
    { [fetch |-> "rejects", ok |-> FALSE, status |-> "", text |-> "Failed to fetch",
       json |-> <<>>] }

HttpErrors ==
    { [fetch |-> "resolves", ok |-> FALSE, status |-> st, text |-> body, json |-> <<>>] :
        st \in {"500"}, body \in {"", "Internal Server Error"} }

UnparsableBodies ==
    { [fetch |-> "resolves", ok |-> TRUE, status |-> "200", text |-> body,
       json |-> <<>>] : body \in {"", "<html>"} }

MalformedResults ==
    { JsonResponse(NullResult),
      JsonResponse(Result("other", Str("ok"), <<>>, <<BasePayload>>)),
      JsonResponse(Result("true", Str("ok"), << <<>> >>, <<>>)) }

ErrorLists ==
    { <<>>, << <<>> >>, << <<"Unable to read document">> >>, << <<"">> >>,
      << <<"Unable to read document", "Unsupported currency">> >> }

Messages == {Undefined, Str(""), Str("Processing failed")}

ApplicationFailures ==
    { JsonResponse(Result("false", m, e, <<>>)) : m \in Messages, e \in ErrorLists }

SuccessResponse(firaData) ==
    JsonResponse(Result("true", Str("ok"), << <<>> >>, <<firaData>>))

Responses ==
    NetworkErrors \cup HttpErrors \cup UnparsableBodies \cup MalformedResults
    \cup ApplicationFailures \cup {SuccessResponse(p) : p \in Payloads}

(***************************************************************************)
(* State                                                                   *)
(***************************************************************************)
VARIABLES
    indexUploadedFile,  \* Index: uploadedFile
    analysisData,       \* Index: <<>> for null, else <<record>>
    isAnalyzing,        \* Index
    uploadedFile,       \* FileUpload: the selected file, NoFile for null
    previewUrl,         \* FileUpload: NoUrl for null
    acceptedTerms,      \* FileUpload
    paymentMethod,      \* FileUpload: "" until chosen
    liveUrls,           \* object URLs created and not yet revoked
    urlsCreated,        \* number of createObjectURL calls so far
    pending,            \* uploadAndProcessFira calls awaiting their response
    callsIssued,        \* number of uploadAndProcessFira calls so far
    toast,              \* the latest toast
    received            \* the latest response logged by the service call,
                        \* <<>> before the first

vars ==
    << indexUploadedFile, analysisData, isAnalyzing, uploadedFile, previewUrl,
       acceptedTerms, paymentMethod, liveUrls, urlsCreated, pending,
       callsIssued, toast, received >>

formVars == <<uploadedFile, previewUrl, acceptedTerms, paymentMethod>>

Toast(title, description, variant) ==
    [title |-> title, description |-> description, variant |-> variant]

NoToast == Toast("", "", "")

InvalidFileToast ==
    Toast("Invalid file type",
          "Please upload a PDF or image file (PNG, JPG, JPEG)", "destructive")

CompleteToast ==
    Toast("Analysis Complete",
          "Your FIRA document has been successfully analyzed.", "")

FailedToast(message) == Toast("Processing Failed", message, "destructive")

Init ==
    /\ indexUploadedFile = NoFile
    /\ analysisData = <<>>
    /\ isAnalyzing = FALSE
    /\ uploadedFile = NoFile
    /\ previewUrl = NoUrl
    /\ acceptedTerms = FALSE
    /\ paymentMethod = ""
    /\ liveUrls = {}
    /\ urlsCreated = 0
    /\ pending = {}
    /\ callsIssued = 0
    /\ toast = NoToast
    /\ received = <<>>


(***************************************************************************)
(* The FileUpload form                                                     *)
(***************************************************************************)
\* a list that lets every image type through
validTypesAnyImage ==
    {"application/pdf", "image/png", "image/jpeg", "image/jpg", "image/gif"}

validTypes == {"application/pdf", "image/png", "image/jpeg", "image/jpg"}

\* file.type.startsWith('image/'), over the types of Files
StartsWithImage(type) == type \in {"image/png", "image/jpeg", "image/jpg", "image/gif"}

\* a gate that forgets isAnalyzing
FileUploadRenderedWhileAnalyzing(data, analyzing) == data = <<>>

\* {!analysisData && !isAnalyzing && <FileUpload .../>}
FileUploadRendered(data, analyzing) == data = <<>> /\ ~analyzing

FileUploadMounted == FileUploadRendered(analysisData, isAnalyzing)

\* cleanup, closed over the previewUrl of its render: the URLs it revokes
cleanup(url) == IF url # NoUrl THEN {url} ELSE {}

\* an effect set up once: nothing is revoked when previewUrl changes
EffectRerunNever(oldUrl, newUrl) == {}

\* useEffect(() => cleanup, [cleanup]): when previewUrl changes, the cleanup
\* of the previous render runs before the effect is set up again
EffectRerun(oldUrl, newUrl) == IF newUrl # oldUrl THEN cleanup(oldUrl) ELSE {}

\* uploadedFile && acceptedTerms && paymentMethod
canAnalyze == uploadedFile # NoFile /\ acceptedTerms /\ paymentMethod # ""

\* a condition that forgets the terms
handleAnalyzeGuardNoTerms(file, terms, method) == file # NoFile /\ method # ""

\* the condition inside handleAnalyze
handleAnalyzeGuard(file, terms, method) == file # NoFile /\ terms /\ method # ""

\* The form's part of a render of Index that takes (analysisData, isAnalyzing)
\* to (data, analyzing): leaving the tree runs the effect's cleanup and drops
\* the form's state, so that the next mount starts from the initial state.
RenderForm(data, analyzing) ==
    IF FileUploadMounted /\ ~FileUploadRendered(data, analyzing)
    THEN /\ liveUrls' = liveUrls \ cleanup(previewUrl)
         /\ uploadedFile' = NoFile
         /\ previewUrl' = NoUrl
         /\ acceptedTerms' = FALSE
         /\ paymentMethod' = ""
    ELSE UNCHANGED <<liveUrls, uploadedFile, previewUrl, acceptedTerms, paymentMethod>>

handleFile(file) ==
    /\ FileUploadMounted
    /\ IF file.type \notin validTypes
       THEN /\ toast' = InvalidFileToast
            /\ UNCHANGED << indexUploadedFile, analysisData, isAnalyzing, formVars,
                            liveUrls, urlsCreated, pending, callsIssued, received >>
       ELSE /\ uploadedFile' = file
            /\ IF StartsWithImage(file.type)
               THEN /\ urlsCreated < MaxUrls
                    /\ urlsCreated' = urlsCreated + 1
                    /\ previewUrl' = urlsCreated + 1
                    /\ liveUrls' = (liveUrls \cup {urlsCreated + 1})
                                      \ EffectRerun(previewUrl, urlsCreated + 1)
               ELSE /\ previewUrl' = NoUrl
                    /\ liveUrls' = liveUrls \ EffectRerun(previewUrl, NoUrl)
                    /\ UNCHANGED urlsCreated
            /\ UNCHANGED << indexUploadedFile, analysisData, isAnalyzing,
                            acceptedTerms, paymentMethod, pending, callsIssued,
                            toast, received >>

\* the Select, shown once a file is chosen
setPaymentMethod(value) ==
    /\ FileUploadMounted
    /\ uploadedFile # NoFile
    /\ paymentMethod' = value
    /\ UNCHANGED << indexUploadedFile, analysisData, isAnalyzing, uploadedFile,
                    previewUrl, acceptedTerms, liveUrls, urlsCreated, pending,
                    callsIssued, toast, received >>

\* the Checkbox, shown once a file is chosen
setAcceptedTerms(checked) ==
    /\ FileUploadMounted
    /\ uploadedFile # NoFile
    /\ acceptedTerms' = checked
    /\ UNCHANGED << indexUploadedFile, analysisData, isAnalyzing, uploadedFile,
                    previewUrl, paymentMethod, liveUrls, urlsCreated, pending,
                    callsIssued, toast, received >>

(***************************************************************************)
(* The Index page                                                          *)
(***************************************************************************)
\* handleFileUpload up to its await: the state writes and the service call
handleFileUploadStart(file, method) ==
    /\ callsIssued < MaxCalls
    /\ indexUploadedFile' = file
    /\ isAnalyzing' = TRUE
    /\ callsIssued' = callsIssued + 1
    /\ pending' = pending \cup
          {[id |-> callsIssued + 1, file |-> file, paymentMethod |-> method]}
    /\ RenderForm(analysisData, TRUE)
    /\ UNCHANGED <<analysisData, urlsCreated, toast, received>>

\* the Analyze button, shown once a file is chosen
handleAnalyze ==
    /\ FileUploadMounted
    /\ uploadedFile # NoFile
    /\ IF handleAnalyzeGuard(uploadedFile, acceptedTerms, paymentMethod)
       THEN handleFileUploadStart(uploadedFile, paymentMethod)
       ELSE UNCHANGED vars

\* the outcome of every response, computed once
Outcomes == [resp \in Responses |-> handleFileUploadOutcome(resp)]

\* handleFileUpload from the await on, for the call `call` and the outcome of
\* its response
handleFileUploadAfterAwait(call, resp, outcome) ==
    /\ call \in pending
    /\ pending' = pending \ {call}
    /\ received' = <<resp>>
    /\ LET data == IF outcome.ok THEN outcome.data ELSE analysisData
       IN  /\ analysisData' = data
           /\ toast' = IF outcome.ok THEN CompleteToast
                       ELSE FailedToast(outcome.message)
           /\ isAnalyzing' = FALSE
           /\ RenderForm(data, FALSE)
    /\ UNCHANGED <<indexUploadedFile, urlsCreated, callsIssued>>

handleFileUploadResume(call, resp) ==
    /\ resp \in Responses
    /\ handleFileUploadAfterAwait(call, resp, Outcomes[resp])

handleBackToHomeBody ==
    /\ indexUploadedFile' = NoFile
    /\ analysisData' = <<>>
    /\ isAnalyzing' = FALSE
    /\ RenderForm(<<>>, FALSE)
    /\ UNCHANGED <<urlsCreated, pending, callsIssued, toast, received>>

\* the back button of ComparisonResults, rendered while a record is stored
handleBackToHome ==
    /\ analysisData # <<>>
    /\ handleBackToHomeBody

\* the logo button, always rendered
handleLogoClick == handleBackToHomeBody

Next ==
    \/ \E file \in Files : handleFile(file)
    \/ \E value \in MethodsTried : setPaymentMethod(value)
    \/ \E checked \in BOOLEAN : setAcceptedTerms(checked)
    \/ handleAnalyze
    \/ \E call \in pending, resp \in Responses : handleFileUploadResume(call, resp)
    \/ handleBackToHome
    \/ handleLogoClick

Spec == Init /\ [][Next]_vars


(***************************************************************************)
(* The comparison engine on its own: a submission is in flight and the     *)
(* service answers success with a payload of finite numbers and nonzero    *)
(* divisors.                                                               *)
(***************************************************************************)
\* fee values below, at and above half a cent
FeeValues == {Num(0, 1), Num(4, 1000), Num(5, 1000)}

\* (finalInrAmount, finalInrAmountSkydo): equal, apart by less than half a
\* cent, by half a cent, and by more, in both directions
FinalPairs ==
    { <<Num(100, 1), Num(100, 1)>>, <<Num(100, 1), Num(100004, 1000)>>,
      <<Num(100004, 1000), Num(100, 1)>>, <<Num(100, 1), Num(100005, 1000)>>,
      <<Num(100005, 1000), Num(100, 1)>>, <<Num(100, 1), Num(1015, 10)>>,
      <<Num(1015, 10), Num(100, 1)>>, <<Num(100, 1), Num(10001, 100)>>,
      <<Num(10001, 100), Num(100, 1)>> }

EnginePayloads ==
    { [ amount |-> Num(10, 1), currency |-> Str("USD"),
        inrAmount |-> Num(830, 1), fxRateSkydo |-> Num(169, 2),
        calculatedExchangeRate |-> Num(83, 1),
        transactionSkydoFee |-> st, skydoFiraFee |-> sf, skydoWireFee |-> sw,
        platformFiraFee |-> pf, platformWireFee |-> pw,
        platformTransactionFee |-> pt,
        finalInrAmount |-> fp[1], finalInrAmountSkydo |-> fp[2] ] :
        st \in FeeValues, sf \in FeeValues, sw \in FeeValues,
        pf \in FeeValues, pw \in FeeValues, pt \in FeeValues,
        fp \in FinalPairs }
    \cup {BasePayload, [BasePayload EXCEPT !.finalInrAmountSkydo = Num(82000, 1)]}

InitEngine ==
    /\ indexUploadedFile = File("fira.pdf", "application/pdf")
    /\ analysisData = <<>>
    /\ isAnalyzing = TRUE
    /\ uploadedFile = NoFile
    /\ previewUrl = NoUrl
    /\ acceptedTerms = FALSE
    /\ paymentMethod = ""
    /\ liveUrls = {}
    /\ urlsCreated = 0
    /\ pending = {[id |-> 1, file |-> File("fira.pdf", "application/pdf"),
                   paymentMethod |-> "BANK"]}
    /\ callsIssued = 1
    /\ toast = NoToast
    /\ received = <<>>

computeRecord(call, payload) ==
    /\ payload \in EnginePayloads
    /\ handleFileUploadAfterAwait(call, SuccessResponse(payload),
                                  handleFileUploadOutcome(SuccessResponse(payload)))

NextEngine == \E call \in pending, payload \in EnginePayloads : computeRecord(call, payload)

SpecEngine == InitEngine /\ [][NextEngine]_vars


(***************************************************************************)
(* Properties                                                              *)
(***************************************************************************)
\* a step in which a service call completes
CallCompletes == Cardinality(pending') < Cardinality(pending)

\* C1: a coordinator never has two uploadAndProcessFira calls outstanding at
\* the same time.
C1_AtMostOneInFlight == Cardinality(pending) <= 1

\* C2: while isAnalyzing is true no step issues a further service call, and
\* the form that offers submit is not available.
C2_NoSubmitWhileAnalyzing ==
    [][isAnalyzing => /\ callsIssued' = callsIssued
                      /\ pending' \subseteq pending
                      /\ ~FileUploadMounted]_vars

C2_Witness == isAnalyzing /\ Cardinality(pending) = 1 /\ callsIssued < MaxCalls

\* C3: canAnalyze holds iff a file is selected, a payment method is chosen
\* and the terms are accepted; a service call is issued only from such a
\* state, and carries exactly the selected file and payment method.
C3_SubmitGated ==
    /\ [](canAnalyze <=>
            (uploadedFile \in Files /\ paymentMethod \in PaymentMethod
             /\ acceptedTerms = TRUE))
    /\ [][callsIssued' # callsIssued =>
            /\ uploadedFile \in Files
            /\ paymentMethod \in PaymentMethod
            /\ acceptedTerms = TRUE
            /\ callsIssued' = callsIssued + 1
            /\ pending' = pending \cup
                  {[id |-> callsIssued', file |-> uploadedFile,
                    paymentMethod |-> paymentMethod]}]_vars

C3_Witness ==
    /\ isAnalyzing
    /\ \E call \in pending : call.id = callsIssued /\ call.file = indexUploadedFile

\* the format a content type declares; image/jpg is the common misspelling
\* of image/jpeg
DeclaredFormat(type) ==
    CASE type = "application/pdf" -> "PDF"
      [] type = "image/png" -> "PNG"
      [] type \in {"image/jpeg", "image/jpg"} -> "JPEG"
      [] OTHER -> "other"

\* C4: handleFile accepts a file exactly when its declared type is PDF, PNG
\* or JPEG; otherwise it shows the invalid-file-type notice and leaves the
\* selected file, the preview, the payment method and the terms flag
\* unchanged, and issues no service call.
C4_SelectFile ==
    [][\A file \in Files : handleFile(file) =>
          IF DeclaredFormat(file.type) \in {"PDF", "PNG", "JPEG"}
          THEN uploadedFile' = file /\ toast' = toast
          ELSE /\ toast' = InvalidFileToast
               /\ UNCHANGED << uploadedFile, previewUrl, paymentMethod,
                               acceptedTerms, liveUrls, pending, callsIssued >>]_vars

C4_Witness ==
    /\ toast = InvalidFileToast
    /\ uploadedFile \in Files
    /\ previewUrl # NoUrl
    /\ paymentMethod # ""
    /\ acceptedTerms

\* C5: the live preview URLs are exactly the one the form shows, if any:
\* at most one is live, a replaced one is revoked, and none is live once the
\* form has been discarded.
C5_PreviewDiscipline ==
    /\ liveUrls = (IF previewUrl = NoUrl THEN {} ELSE {previewUrl})
    /\ Cardinality(liveUrls) <= 1
    /\ ~FileUploadMounted => liveUrls = {}

C5_Witness == ~FileUploadMounted /\ urlsCreated >= 2 /\ liveUrls = {}

\* the numbers of a stored record
RecordNumbers(record) ==
    LET side(b) == {b.paymentAmount, b.totalOnTransaction, b.effectiveCost}
                   \cup {b.charges[i].amount : i \in DOMAIN b.charges}
    IN  side(record.currentProvider) \cup side(record.skydo)
        \cup {record.savings.amount, record.savings.percentage,
              record.transactionAmount, record.originalAmount}

\* C6: the stored record never contains NaN or Infinity.
C6_RecordFinite ==
    analysisData # <<>> => \A v \in RecordNumbers(analysisData[1]) : IsFinite(v)

\* the responses that are failures: no answer, a bad status, a bad body, a
\* malformed result, success:false, or success:true without a required field
FailureResponses ==
    NetworkErrors \cup HttpErrors \cup UnparsableBodies \cup MalformedResults
    \cup ApplicationFailures
    \cup {SuccessResponse(p) : p \in {q \in Payloads :
             \E i \in DOMAIN requiredFields : q[requiredFields[i]] = Undefined}}

\* C7: every failed submission ends with isAnalyzing false, a non-empty
\* error message surfaced and no record stored.
C7_FailureSurfaced ==
    [][CallCompletes /\ received'[1] \in FailureResponses =>
          /\ ~isAnalyzing'
          /\ toast'.variant = "destructive"
          /\ toast'.description # ""
          /\ analysisData' = <<>>]_vars

\* the entries of a non-empty list, joined
RECURSIVE EntriesJoined(_)
EntriesJoined(entries) ==
    IF Len(entries) = 1 THEN entries[1]
    ELSE EntriesJoined(SubSeq(entries, 1, Len(entries) - 1))
            \o ", " \o entries[Len(entries)]

\* C8: for success:false the surfaced message is the errors joined when the
\* list is non-empty, otherwise the message field, otherwise the fixed
\* fallback; errors ["Unable to read document"] give exactly that text.
C8_FailureMessage ==
    [][CallCompletes /\ received'[1] \in ApplicationFailures =>
          LET result == received'[1].json[1]
              shown == toast'.description
          IN  /\ toast'.title = "Processing Failed"
              /\ IF result.errors # <<>> /\ result.errors[1] # <<>>
                 THEN shown = EntriesJoined(result.errors[1])
                 ELSE IF result.message.k = "str" /\ result.message.s # ""
                 THEN shown = result.message.s
                 ELSE shown = "Failed to process FIRA document"
              /\ result.errors = << <<"Unable to read document">> >>
                    => shown = "Unable to read document"]_vars

C8_Witness ==
    /\ received # <<>>
    /\ received[1] \in ApplicationFailures
    /\ received[1].json[1].errors = << <<"Unable to read document">> >>
    /\ toast = FailedToast("Unable to read document")

\* the sum of the three fee amounts a breakdown displays, to 2 decimals
DisplayedFeeSum(breakdown) ==
    NumberToFixed(JsAdd(JsAdd(breakdown.charges[2].amount,
                              breakdown.charges[3].amount),
                        breakdown.charges[4].amount), 2)

\* C9: for both providers totalOnTransaction equals the sum of the three
\* displayed (rounded) fee amounts, rounded to 2 decimals.
C9_TotalIsSumOfDisplayed ==
    analysisData # <<>> =>
        /\ analysisData[1].currentProvider.totalOnTransaction
              = DisplayedFeeSum(analysisData[1].currentProvider)
        /\ analysisData[1].skydo.totalOnTransaction
              = DisplayedFeeSum(analysisData[1].skydo)

\* finalInrAmountSkydo - finalInrAmount of the payload just received
ReceivedDifference ==
    LET firaData == received[1].json[1].firaData[1]
    IN  JsSub(firaData.finalInrAmountSkydo, firaData.finalInrAmount)

\* C10 as stated: savings.amount has the sign of
\* finalInrAmountSkydo - finalInrAmount.
C10_SignPreserved ==
    analysisData # <<>> =>
        Sgn(analysisData[1].savings.amount.n) = Sgn(ReceivedDifference.n)

\* C10, amended: savings.amount is never clamped and never of the opposite
\* sign; it is positive when the difference is at least 0.01, negative when
\* it is at most -0.01, zero when the amounts are equal.
C10_SignUpToRounding ==
    analysisData # <<>> =>
        LET amount == analysisData[1].savings.amount
            diff == ReceivedDifference
        IN  /\ ~NumLess(diff, Num(1, 100)) => amount.n > 0
            /\ ~NumLess(Num(-1, 100), diff) => amount.n < 0
            /\ diff.n = 0 => amount.n = 0
            /\ diff.n > 0 => amount.n >= 0
            /\ diff.n < 0 => amount.n <= 0

C10_Witness ==
    /\ analysisData # <<>>
    /\ ReceivedDifference.n < 0
    /\ analysisData[1].savings.amount.n < 0


\* the payload just received
ReceivedFiraData == received[1].json[1].firaData[1]

\* r is x rounded to 2 decimals: a multiple of 0.01 at most 0.005 from x
IsRoundedTo2(r, x) ==
    /\ r.k = "num"
    /\ 100 % r.d = 0
    /\ LET e == JsSub(r, x) IN 200 * Abs(e.n) <= e.d

\* part / whole * 100
PercentOf(part, whole) == JsMul(JsDiv(part, whole), Num(100, 1))

\* the formulas of C11 hold of the stored record
C11_Formulas ==
    LET fd == ReceivedFiraData
        record == analysisData[1]
        alt == JsMul(fd.amount, fd.fxRateSkydo)
    IN  /\ IsRoundedTo2(record.currentProvider.effectiveCost,
                        PercentOf(JsSub(fd.inrAmount, fd.finalInrAmount),
                                  fd.inrAmount))
        /\ IsRoundedTo2(record.skydo.effectiveCost,
                        PercentOf(JsSub(alt, fd.finalInrAmountSkydo), alt))
        /\ IsRoundedTo2(record.savings.percentage,
                        PercentOf(JsSub(fd.finalInrAmountSkydo, fd.finalInrAmount),
                                  fd.finalInrAmount))

\* the results of the worked example, with the given savings percentage
C11_Example(percentage) ==
    LET record == analysisData[1]
    IN  /\ record.currentProvider.totalOnTransaction = Num(800, 1)
        /\ record.currentProvider.effectiveCost = Num(96, 100)
        /\ record.skydo.effectiveCost = Num(95, 100)
        /\ record.savings.amount = Num(1500, 1)
        /\ record.savings.percentage = percentage

\* C11 as stated: the effective costs and the savings percentage follow the
\* formulas, rounded to 2 decimals, and the worked example gives 800.00,
\* 0.96, 0.95, 1500.00 and 1.83.
C11_FormulasAndExample ==
    analysisData # <<>> =>
        /\ C11_Formulas
        /\ ReceivedFiraData = BasePayload => C11_Example(Num(183, 100))

\* C11, amended: the same formulas, and the worked example gives 800.00,
\* 0.96, 0.95, 1500.00 and a savings percentage of 1.82.
C11_FormulasAndExampleAmended ==
    analysisData # <<>> =>
        /\ C11_Formulas
        /\ ReceivedFiraData = BasePayload => C11_Example(Num(182, 100))

C11_Witness ==
    /\ analysisData # <<>>
    /\ ReceivedFiraData = BasePayload
    /\ analysisData[1].savings.percentage = Num(182, 100)


\* C12: once reset, the page stays reset until a submit issued after the reset
\* completes.  While indexUploadedFile is null no submit has been issued
\* since the last reset, so every call still awaited was abandoned by it: its
\* late response stores no record and surfaces no toast.
C12_ResetDiscardsSession ==
    [][CallCompletes /\ indexUploadedFile = NoFile =>
          /\ analysisData' = <<>>
          /\ toast' = toast
          /\ isAnalyzing' = isAnalyzing]_vars

=============================================================================
